---- MODULE Spec2Model ----
(***************************************************************************)
(* Job lifecycle and queue engine of the "Web Download -> Telegram"        *)
(* server: the job registry, the FIFO queue, the concurrency gate, the     *)
(* processQueue pipeline with its notifier calls, and the cleanup timer.   *)
(* One action is one turn of the Node event loop: the code that runs       *)
(* between two awaits of processQueue, an HTTP handler, or a timer.        *)
(* The multi-engine server is modelled; src/server.js is its single-engine *)
(* predecessor, whose processQueue is the single-file branch found here.   *)
(***************************************************************************)
EXTENDS Integers, Sequences, FiniteSets, TLC

\* ---- bounds of the model ----
MaxJobs == 2        \* submissions accepted during one run
MaxCeiling == 2     \* MAX_CONCURRENT ranges over 1..MaxCeiling
MaxFiles == 2       \* files an engine leaves in a job's output directory
MaxCleanup == 2     \* AUTO_CLEANUP_MINUTES is 0 or MaxCleanup

VARIABLES
  jobs,                 \* the Map id -> job record
  running,              \* in-flight counter
  queue,                \* pending job ids, head first
  immediates,           \* number of setImmediate(processQueue) callbacks pending
  pc,                   \* per job: the await processQueue is suspended at
  files,                \* per job: the local `files` of the multi-file branch
  sent,                 \* per job: the local `sent`
  disk,                 \* artifacts on disk, <<job id, item>>
  timers,               \* pending cleanup timers, with the minutes left
  doneAge,              \* per single-file job: minutes since it was marked
                        \* done (capped), -1 while it is not done
  uploading,            \* notifier: uploads in progress
  uploaded,             \* notifier: per job, files received by the chat, in order
  res,                  \* POST /api/jobs: the last request's url and its response
  children,             \* per job: the engine processes spawned for it, with
                        \* the binary and how the process ended
  MAX_CONCURRENT, AUTO_CLEANUP_MINUTES, TG_BOT_TOKEN, TG_CHAT_ID

vars == <<jobs, running, queue, immediates, pc, files, sent, disk, timers, doneAge,
          uploading, uploaded, res, children,
          MAX_CONCURRENT, AUTO_CLEANUP_MINUTES, TG_BOT_TOKEN, TG_CHAT_ID>>

config == <<MAX_CONCURRENT, AUTO_CLEANUP_MINUTES, TG_BOT_TOKEN, TG_CHAT_ID>>

Ids == 1..MaxJobs

\* ---- values ----
NoPath == <<>>                                   \* file_path: null
NoName == [kind |-> "null", n |-> 0]             \* file_name: null
NoError == "null"                                \* error: null

\* The url of a request body: the empty string, a string new URL() cannot
\* parse, or an absolute URL with the parts isValidUrl() and classify() look at.
DirectExts == {".mp4", ".mp3", ".zip", ".png"}
Url(protocol, host, ext) ==
  [form |-> "absolute", protocol |-> protocol, host |-> host, ext |-> ext]
EmptyUrl == [form |-> "empty", protocol |-> "", host |-> "", ext |-> ""]
MalformedUrl == [form |-> "malformed", protocol |-> "", host |-> "", ext |-> ""]
SubmittedUrls == {Url("https:", "example.com", ""),
                  Url("https:", "open.spotify.com", ""),
                  Url("ftp:", "example.com", ""),
                  EmptyUrl, MalformedUrl}

Max(a, b) == IF a >= b THEN a ELSE b

\* ---- helpers ----

\* (a validation that accepts whatever new URL() parses)
isValidUrlAnyScheme(u) == u.form = "absolute"

\* isValidUrl(u): new URL(u) parsed and the protocol is http: or https:.
isValidUrl(u) == u.form = "absolute" /\ u.protocol \in {"http:", "https:"}

\* {...cur, ...patch}: the fields of patch override those of cur.
Merge(cur, patch) ==
  [f \in DOMAIN cur |-> IF f \in DOMAIN patch THEN patch[f] ELSE cur[f]]

\* setJob(id, patch): no-op for an unknown id, else merge the patch into the
\* record (the timestamps created_at/updated_at and the log are not modelled).
setJob(js, id, patch) ==
  IF id \notin DOMAIN js THEN js
  ELSE [js EXCEPT ![id] = Merge(js[id], patch)]

\* classify(rawUrl): the three features the router looks at.
SpotifyHosts == {"open.spotify.com"}
classify(u) ==
  [isDirect |-> u.ext \in DirectExts,
   isM3u8 |-> u.ext = ".m3u8",
   isSpotify |-> u.host \in SpotifyHosts,
   host |-> u.host]

\* path.basename(fp) of the artifact <<id, item>>.
basename(fp) == [kind |-> "basename", n |-> fp[2]]
\* `${files.length} files`
CountSummary(fs) == [kind |-> "count", n |-> Len(fs)]

\* Array.prototype.sort() on the file paths of one job directory: the paths
\* share the directory prefix, so the order is the order of the item names.
RECURSIVE Insert(_, _)
Insert(x, s) ==
  IF s = <<>> THEN <<x>>
  ELSE IF x[2] <= Head(s)[2] THEN <<x>> \o s
  ELSE <<Head(s)>> \o Insert(x, Tail(s))
\* (a sort that leaves the array as readdir listed it)
sortNone(s) == s

RECURSIVE sort(_)
sort(s) == IF s = <<>> THEN <<>> ELSE Insert(Head(s), sort(Tail(s)))

\* ---- notifier ----
NotConfigured == TG_BOT_TOKEN = "" \/ TG_CHAT_ID = ""

\* tgSendMessage(text): returns without sending when the credentials are
\* missing, else resolves ("ok") or throws on a non-ok response ("fail").
tgSendMessageOutcomes == IF NotConfigured THEN {"skip"} ELSE {"ok", "fail"}

\* tgSendFileChecked(filePath, caption): as above; fs.readFileSync throws
\* when the file is not on disk.
\* tgSendFileChecked(filePath, caption), up to its first await: nothing is
\* sent when the credentials are missing or fs.readFileSync throws (file not
\* on disk d); otherwise the upload request is on its way.
StartUpload(up, fp, d) ==
  IF NotConfigured \/ fp \notin d THEN up ELSE up \cup {fp}

\* ... and its settlement: returned without sending ("skip"), resolved ("ok"),
\* or threw: readFileSync failed or the response was not ok ("fail").
tgSendFileCheckedOutcomes(fp) ==
  IF NotConfigured THEN {"skip"}
  ELSE IF fp \notin uploading THEN {"fail"}
  ELSE {"ok", "fail"}

\* ---- engines ----
\* What the external process did: whether it could be spawned, its exit code
\* and the items it left in the job's output location, in readdir order.
\* A directory with n files holds the items 1..n, listed in any order.
Orders == {s \in UNION {[1..n -> 1..n] : n \in 0..MaxFiles} :
             \A i, j \in DOMAIN s : s[i] = s[j] => i = j}
SingleOutputs == {<<>>, <<1>>}
ProcessRuns(outs) == [spawned : BOOLEAN, code : {0, 1}, out : outs]

\* The settled promise of an engine: resolve(path), resolve(array of paths)
\* or reject(error).
Resolve(isArray, paths) ==
  [ok |-> TRUE, isArray |-> isArray, paths |-> paths, message |-> ""]
Reject(m) == [ok |-> FALSE, isArray |-> FALSE, paths |-> <<>>, message |-> m]

PathsOf(id, out) == [i \in 1..Len(out) |-> <<id, out[i]>>]

\* (a close handler that looks at the printed path only, not at the exit code)
runYtDlpSingleAnyCode(id, r) ==
  IF ~r.spawned THEN Reject("spawn error")
  ELSE IF r.out # <<>> THEN Resolve(FALSE, <<<<id, Head(r.out)>>>>)
  ELSE Reject("yt-dlp exit code")

\* runYtDlpSingle: resolve(finalPath) iff exit code 0 and the printed path exists.
runYtDlpSingle(id, r) ==
  IF ~r.spawned THEN Reject("spawn error")
  ELSE IF r.code = 0 /\ r.out # <<>> THEN Resolve(FALSE, <<<<id, Head(r.out)>>>>)
  ELSE Reject("yt-dlp exit code")

\* runAria2Single: exit code 0 and at least one regular file; the first one.
runAria2Single(id, r) ==
  IF ~r.spawned THEN Reject("spawn error")
  ELSE IF r.code # 0 THEN Reject("aria2c exit code")
  ELSE IF r.out = <<>> THEN Reject("aria2c selesai tapi file tidak ditemukan.")
  ELSE Resolve(FALSE, <<<<id, Head(r.out)>>>>)

\* runFfmpegM3u8Single: exit code 0 and the fixed output path exists.
runFfmpegM3u8Single(id, r) ==
  IF ~r.spawned THEN Reject("spawn error")
  ELSE IF r.code = 0 /\ r.out # <<>> THEN Resolve(FALSE, <<<<id, Head(r.out)>>>>)
  ELSE Reject("ffmpeg exit code")

\* runSpotdlMulti: exit code 0 and at least one regular file; all of them.
runSpotdlMulti(id, r) ==
  IF ~r.spawned THEN Reject("spawn error")
  ELSE IF r.code # 0 THEN Reject("spotdl exit code")
  ELSE IF r.out = <<>> THEN Reject("spotdl selesai tapi file tidak ditemukan.")
  ELSE Resolve(TRUE, PathsOf(id, r.out))

\* The binaries.
YTDLP == "yt-dlp"
SPOTDL == "spotdl"
ARIA2C == "aria2c"
FFMPEG == "ffmpeg"

\* (a router that looks at the host before the path suffix)
RouteHostFirst(u) ==
  LET c == classify(u) IN
  IF c.isSpotify THEN SPOTDL
  ELSE IF c.isDirect THEN ARIA2C
  ELSE IF c.isM3u8 THEN FFMPEG
  ELSE YTDLP

\* The branch runDownload(id, url) takes, first match wins, named by the
\* binary its adapter spawns.
Route(u) ==
  LET c == classify(u) IN
  IF c.isDirect THEN ARIA2C
  ELSE IF c.isM3u8 THEN FFMPEG
  ELSE IF c.isSpotify THEN SPOTDL
  ELSE YTDLP

\* runDownload(id, url): the promise of the adapter the router called.
runDownload(id, u, r) ==
  CASE Route(u) = ARIA2C -> runAria2Single(id, r)
    [] Route(u) = FFMPEG -> runFfmpegM3u8Single(id, r)
    [] Route(u) = SPOTDL -> runSpotdlMulti(id, r)
    [] Route(u) = YTDLP -> runYtDlpSingle(id, r)

\* The runs the engine chosen for u can have: the directory engines (aria2c,
\* spotdl) may leave several files, the others write one output path.
EngineRuns(u) ==
  IF Route(u) \in {ARIA2C, SPOTDL} THEN ProcessRuns(Orders)
  ELSE ProcessRuns(SingleOutputs)

\* How the child process ended: the 'error' event of a failed spawn, or the
\* 'close' event with the exit code.
Ended(r) == IF ~r.spawned THEN "error" ELSE IF r.code = 0 THEN "close 0" ELSE "close 1"

\* Files the process left on disk.
Produced(id, r) == IF r.spawned THEN {<<id, r.out[i]>> : i \in 1..Len(r.out)} ELSE {}

\* ---- scheduler pieces ----
\* (an id generator that hands out its last id again)
nanoidRepeating == Max(1, Cardinality(DOMAIN jobs))

\* nanoid(10): a fresh id.
nanoid == Cardinality(DOMAIN jobs) + 1

\* jobs.set(id, record): adds the key, or replaces the record it has.
MapSet(js, id, rec) ==
  [i \in DOMAIN js \cup {id} |-> IF i = id THEN rec ELSE js[i]]

\* No request to POST /api/jobs was answered yet.
NoResponse == [url |-> EmptyUrl, status |-> 0, id |-> 0]

\* (gates that let a job in too early: > for >=, and no gate at all)
AtCeilingOffByOne(r) == r > MAX_CONCURRENT
AtCeilingOpen(r) == FALSE

\* if (running >= MAX_CONCURRENT) return;
AtCeiling(r) == r >= MAX_CONCURRENT

\* (reading the head without removing it)
shiftPeek(q) == [next |-> Head(q), rest |-> q]

\* (queue.pop() for queue.shift())
shiftLast(q) == [next |-> q[Len(q)], rest |-> SubSeq(q, 1, Len(q) - 1)]

\* queue.shift(): the head, and the queue without it.
shift(q) == [next |-> Head(q), rest |-> Tail(q)]

\* (the delay without its clamp)
CleanupDelayUnclamped(m) == m

\* Math.max(1, AUTO_CLEANUP_MINUTES), the timer's delay in minutes.
CleanupDelay(m) == Max(1, m)

\* ---- initial state: the module's top-level statements ----
Init ==
  /\ jobs = << >>
  /\ running = 0
  /\ queue = << >>
  /\ immediates = 0
  /\ pc = [i \in Ids |-> "idle"]
  /\ files = [i \in Ids |-> << >>]
  /\ sent = [i \in Ids |-> 0]
  /\ disk = {}
  /\ timers = {}
  /\ doneAge = [i \in Ids |-> -1]
  /\ uploading = {}
  /\ uploaded = [i \in Ids |-> << >>]
  /\ res = NoResponse
  /\ children = [i \in Ids |-> << >>]
  /\ MAX_CONCURRENT \in 1..MaxCeiling
  /\ AUTO_CLEANUP_MINUTES \in {0, MaxCleanup}
  /\ TG_BOT_TOKEN \in {"", "token"}
  /\ TG_CHAT_ID = "chat"

\* ---- POST /api/jobs ----
\* The handler from line 446 on, with the id nanoid(10) returned.
CreateJob(id, u) ==
  /\ jobs' = MapSet(jobs, id, [id |-> id, url |-> u, status |-> "queued",
                               file_path |-> NoPath,
                               file_name |-> NoName, error |-> NoError])
  /\ queue' = Append(queue, id)
  /\ immediates' = immediates + 1
  /\ res' = [url |-> u, status |-> 200, id |-> id]
  /\ UNCHANGED <<running, pc, files, sent, disk, timers, doneAge,
                 uploading, uploaded, children, config>>

PostJob(u) ==
  /\ Cardinality(DOMAIN jobs) < MaxJobs
  /\ IF u.form = "empty" \/ ~isValidUrl(u)
     THEN /\ res' = [url |-> u, status |-> 400, id |-> 0]   \* "URL tidak valid."
          /\ UNCHANGED <<jobs, running, queue, immediates, pc, files, sent, disk,
                         timers, doneAge, uploading, uploaded, children, config>>
     ELSE CreateJob(nanoid, u)

\* ---- GET /api/jobs/:id ----
getJob(js, id) ==
  IF id \notin DOMAIN js THEN [status |-> 404, job |-> << >>]
  ELSE [status |-> 200, job |-> js[id]]

\* ---- processQueue, from its call by setImmediate to the first await ----
processQueue ==
  /\ immediates > 0
  /\ immediates' = immediates - 1
  /\ IF AtCeiling(running) \/ queue = << >>
     THEN UNCHANGED <<jobs, running, queue, pc>>
     ELSE LET id == shift(queue).next IN
          /\ queue' = shift(queue).rest
          /\ IF id \notin DOMAIN jobs
             THEN UNCHANGED <<jobs, running, pc>>        \* running++; running--
             ELSE /\ running' = running + 1
                  /\ jobs' = setJob(jobs, id, [status |-> "downloading"])
                  /\ pc' = [pc EXCEPT ![id] = "startMsg"]
  /\ UNCHANGED <<files, sent, disk, timers, doneAge, uploading, uploaded,
                 res, children, config>>

\* catch (e): mark the job failed and send the failure notification.
Catch(id, message) ==
  /\ jobs' = setJob(jobs, id, [status |-> "error", error |-> message])
  /\ pc' = [pc EXCEPT ![id] = "failMsg"]

\* (a finally that schedules the drive step but keeps the slot)
FinallyNoRelease(id) ==
  /\ running' = running
  /\ immediates' = immediates + 1
  /\ pc' = [pc EXCEPT ![id] = "finished"]
  /\ files' = [files EXCEPT ![id] = << >>]
  /\ sent' = [sent EXCEPT ![id] = 0]

\* (a finally that releases the slot but schedules no drive step)
FinallyNoRetrigger(id) ==
  /\ running' = running - 1
  /\ immediates' = immediates
  /\ pc' = [pc EXCEPT ![id] = "finished"]
  /\ files' = [files EXCEPT ![id] = << >>]
  /\ sent' = [sent EXCEPT ![id] = 0]

\* finally: release the slot and schedule another drive step.  The call has
\* returned, its locals are gone.
Finally(id) ==
  /\ running' = running - 1
  /\ immediates' = immediates + 1
  /\ pc' = [pc EXCEPT ![id] = "finished"]
  /\ files' = [files EXCEPT ![id] = << >>]
  /\ sent' = [sent EXCEPT ![id] = 0]

\* await tgSendMessage("Mulai download...") settled; runDownload is called.
AfterStartMsg(id, o) ==
  /\ pc[id] = "startMsg"
  /\ o \in tgSendMessageOutcomes
  /\ IF o = "fail"
     THEN Catch(id, "TG sendMessage failed")
     ELSE /\ pc' = [pc EXCEPT ![id] = "download"]
          /\ UNCHANGED jobs
  /\ UNCHANGED <<running, queue, immediates, files, sent, disk, timers, doneAge,
                 uploading, uploaded, res, children, config>>

\* await runDownload(...) settled.
AfterDownload(id, r) ==
  /\ pc[id] = "download"
  /\ r \in EngineRuns(jobs[id].url)
  /\ disk' = disk \cup Produced(id, r)
  /\ children' = [children EXCEPT
                    ![id] = Append(@, [bin |-> Route(jobs[id].url), ended |-> Ended(r)])]
  /\ LET result == runDownload(id, jobs[id].url, r)
         up == setJob(jobs, id, [status |-> "uploading"])
     IN
     IF ~result.ok
     THEN /\ Catch(id, result.message)
          /\ UNCHANGED <<files, uploading>>
     ELSE IF result.isArray
     THEN \* MODE A: sort, record the summary, announce the item count
          /\ files' = [files EXCEPT ![id] = sort(result.paths)]
          /\ jobs' = setJob(up, id, [file_name |-> CountSummary(result.paths),
                                     file_path |-> NoPath])
          /\ pc' = [pc EXCEPT ![id] = "itemsMsg"]
          /\ UNCHANGED uploading
     ELSE LET filePath == result.paths[1] IN
          /\ jobs' = setJob(up, id, [file_path |-> filePath,
                                     file_name |-> basename(filePath)])
          /\ uploading' = StartUpload(uploading, filePath, disk')
          /\ pc' = [pc EXCEPT ![id] = "sendFile"]
          /\ UNCHANGED files
  /\ UNCHANGED <<running, queue, immediates, sent, timers, doneAge, uploaded, res,
                 config>>

\* await tgSendMessage("Playlist/multi-item...") settled; the loop starts.
AfterItemsMsg(id, o) ==
  /\ pc[id] = "itemsMsg"
  /\ o \in tgSendMessageOutcomes
  /\ IF o = "fail"
     THEN /\ Catch(id, "TG sendMessage failed")
          /\ UNCHANGED <<sent, uploading>>
     ELSE /\ sent' = [sent EXCEPT ![id] = 1]
          /\ uploading' = StartUpload(uploading, files[id][1], disk)
          /\ pc' = [pc EXCEPT ![id] = "sendItem"]
          /\ UNCHANGED jobs
  /\ UNCHANGED <<running, queue, immediates, files, disk, timers, doneAge,
                 uploaded, res, children, config>>

\* (a loop that catches a failed item, keeps its file and goes on to the next)
AfterSendItemCaught(id, o) ==
  /\ pc[id] = "sendItem"
  /\ LET fp == files[id][sent[id]]
         settled == uploading \ {fp}
     IN
     /\ o \in tgSendFileCheckedOutcomes(fp)
     /\ uploaded' = IF o = "ok"
                    THEN [uploaded EXCEPT ![id] = Append(@, fp)]
                    ELSE uploaded
     /\ disk' = IF o = "fail" THEN disk ELSE disk \ {fp}
     /\ IF sent[id] < Len(files[id])
        THEN /\ sent' = [sent EXCEPT ![id] = @ + 1]
             /\ uploading' = StartUpload(settled, files[id][sent[id] + 1], disk')
             /\ UNCHANGED <<jobs, pc>>
        ELSE /\ jobs' = setJob(jobs, id, [status |-> "done"])
             /\ pc' = [pc EXCEPT ![id] = "doneMsgMulti"]
             /\ uploading' = settled
             /\ UNCHANGED sent
  /\ UNCHANGED <<running, queue, immediates, files, timers, doneAge,
                 res, children, config>>

\* await tgSendFileChecked(fp, caption) settled inside the loop: unlink the
\* item, then either send the next item or mark the job done.
AfterSendItem(id, o) ==
  /\ pc[id] = "sendItem"
  /\ LET fp == files[id][sent[id]]
         settled == uploading \ {fp}
     IN
     /\ o \in tgSendFileCheckedOutcomes(fp)
     /\ IF o = "fail"
        THEN /\ Catch(id, "TG upload failed")
             /\ uploading' = settled
             /\ UNCHANGED <<sent, disk, uploaded>>
        ELSE /\ uploaded' = IF o = "ok"
                            THEN [uploaded EXCEPT ![id] = Append(@, fp)]
                            ELSE uploaded
             /\ disk' = disk \ {fp}                       \* fs.unlinkSync(fp)
             /\ IF sent[id] < Len(files[id])
                THEN /\ sent' = [sent EXCEPT ![id] = @ + 1]
                     /\ uploading' = StartUpload(settled, files[id][sent[id] + 1], disk')
                     /\ UNCHANGED <<jobs, pc>>
                ELSE /\ jobs' = setJob(jobs, id, [status |-> "done"])
                     /\ pc' = [pc EXCEPT ![id] = "doneMsgMulti"]
                     /\ uploading' = settled
                     /\ UNCHANGED sent
  /\ UNCHANGED <<running, queue, immediates, files, timers, doneAge,
                 res, children, config>>

\* await tgSendMessage("Selesai upload playlist...") settled.
AfterDoneMsgMulti(id, o) ==
  /\ pc[id] = "doneMsgMulti"
  /\ o \in tgSendMessageOutcomes
  /\ IF o = "fail"
     THEN /\ Catch(id, "TG sendMessage failed")
          /\ UNCHANGED <<running, immediates, files, sent>>
     ELSE /\ Finally(id)
          /\ UNCHANGED jobs
  /\ UNCHANGED <<queue, disk, timers, doneAge, uploading, uploaded,
                 res, children, config>>

\* await tgSendFileChecked(filePath, caption) settled, single-file branch.
AfterSendFile(id, o) ==
  /\ pc[id] = "sendFile"
  /\ LET fp == jobs[id].file_path IN
     /\ o \in tgSendFileCheckedOutcomes(fp)
     /\ uploading' = uploading \ {fp}
     /\ IF o = "fail"
        THEN /\ Catch(id, "TG upload failed")
             /\ UNCHANGED <<uploaded, doneAge>>
        ELSE /\ uploaded' = IF o = "ok"
                            THEN [uploaded EXCEPT ![id] = Append(@, fp)]
                            ELSE uploaded
             /\ jobs' = setJob(jobs, id, [status |-> "done"])
             /\ doneAge' = [doneAge EXCEPT ![id] = 0]
             /\ pc' = [pc EXCEPT ![id] = "doneMsg"]
  /\ UNCHANGED <<running, queue, immediates, files, sent, disk, timers,
                 res, children, config>>

\* await tgSendMessage("Upload beres...") settled; the cleanup timer is set.
AfterDoneMsg(id, o) ==
  /\ pc[id] = "doneMsg"
  /\ o \in tgSendMessageOutcomes
  /\ IF o = "fail"
     THEN /\ Catch(id, "TG sendMessage failed")
          /\ doneAge' = [doneAge EXCEPT ![id] = -1]
          /\ UNCHANGED <<running, immediates, files, sent, timers>>
     ELSE /\ timers' = timers \cup
                       {[id |-> id, left |-> CleanupDelay(AUTO_CLEANUP_MINUTES)]}
          /\ Finally(id)
          /\ UNCHANGED <<jobs, doneAge>>
  /\ UNCHANGED <<queue, disk, uploading, uploaded, res, children, config>>

\* await tgSendMessage("Job gagal...") settled, its failure swallowed.
AfterFailMsg(id, o) ==
  /\ pc[id] = "failMsg"
  /\ o \in tgSendMessageOutcomes
  /\ Finally(id)
  /\ UNCHANGED <<jobs, queue, disk, timers, doneAge, uploading, uploaded,
                 res, children, config>>

\* The setTimeout callback of a single-file job, once its delay has passed.
CleanupTimer(t) ==
  /\ t \in timers
  /\ t.left = 0
  /\ timers' = timers \ {t}
  /\ LET cur == jobs[t.id] IN
     disk' = IF cur.file_path # NoPath /\ cur.file_path \in disk
             THEN disk \ {cur.file_path}
             ELSE disk
  /\ UNCHANGED <<jobs, running, queue, immediates, pc, files, sent, doneAge,
                 uploading, uploaded, res, children, config>>

\* A minute passes: every pending timer has a minute less to wait, every done
\* mark is a minute older.  Ages are kept up to the timer's delay.
AgeCap == Max(1, AUTO_CLEANUP_MINUTES)
Tick ==
  /\ timers' = {[t EXCEPT !.left = Max(0, @ - 1)] : t \in timers}
  /\ doneAge' = [i \in Ids |-> IF doneAge[i] = -1 \/ doneAge[i] = AgeCap
                               THEN doneAge[i] ELSE doneAge[i] + 1]
  /\ <<timers', doneAge'>> # <<timers, doneAge>>
  /\ UNCHANGED <<jobs, running, queue, immediates, pc, files, sent, disk,
                 uploading, uploaded, res, children, config>>

NotifierOutcomes == {"ok", "fail", "skip"}

Pipeline(id) ==
  \/ \E o \in NotifierOutcomes : AfterStartMsg(id, o)
  \/ \E r \in ProcessRuns(Orders) : AfterDownload(id, r)
  \/ \E o \in NotifierOutcomes : AfterItemsMsg(id, o)
  \/ \E o \in NotifierOutcomes : AfterSendItem(id, o)
  \/ \E o \in NotifierOutcomes : AfterDoneMsgMulti(id, o)
  \/ \E o \in NotifierOutcomes : AfterSendFile(id, o)
  \/ \E o \in NotifierOutcomes : AfterDoneMsg(id, o)
  \/ \E o \in NotifierOutcomes : AfterFailMsg(id, o)

Next ==
  \/ \E u \in SubmittedUrls : PostJob(u)
  \/ processQueue
  \/ \E id \in Ids : Pipeline(id)
  \/ \E t \in timers : CleanupTimer(t)
  \/ Tick

Spec == Init /\ [][Next]_vars

\* ---- the router under every kind of url ----
\* One url for each combination of path suffix and host the classifier tells
\* apart (a path has one suffix, so it is never both direct and a manifest).
RouteUrls == {Url("https:", h, e) : h \in {"example.com", "open.spotify.com"},
                                    e \in {"", ".mp4", ".m3u8"}}

RouteInit ==
  /\ Init
  /\ AUTO_CLEANUP_MINUTES = 0
  /\ TG_BOT_TOKEN = "token"

RouteNext ==
  \/ \E u \in RouteUrls : PostJob(u)
  \/ processQueue
  \/ \E id \in Ids : Pipeline(id)
  \/ \E t \in timers : CleanupTimer(t)
  \/ Tick

RouteSpec == RouteInit /\ [][RouteNext]_vars

\* ---- an id generator that is not assumed fresh ----
\* POST /api/jobs when nanoid(10) returns the id of a record in the registry.
\* The model follows one pipeline per id, so the id is one whose pipeline has
\* ended and that is not waiting in the queue.  To keep the counters and
\* histories finite the request arrives when the event loop has no drive step
\* left to run, and an id is handed out again only while it has had at most
\* one engine process.
PostJobRepeatedId(u, id) ==
  /\ id \in DOMAIN jobs
  /\ pc[id] = "finished"
  /\ \A i \in DOMAIN queue : queue[i] # id
  /\ immediates = 0
  /\ Len(children[id]) <= 1
  /\ ~(u.form = "empty" \/ ~isValidUrl(u))
  /\ CreateJob(id, u)

CollideInit ==
  /\ Init
  /\ MAX_CONCURRENT = 1
  /\ AUTO_CLEANUP_MINUTES = 0
  /\ TG_BOT_TOKEN = "token"

CollideNext ==
  \/ Next
  \/ \E id \in Ids : PostJobRepeatedId(Url("https:", "example.com", ""), id)

CollideSpec == CollideInit /\ [][CollideNext]_vars

\* ---- src/server.js, the single-engine server ----
\* Its handlers, notifier, catch, finally and cleanup timer are the ones above
\* (tgSendDocument for tgSendFileChecked); every url goes to yt-dlp.

\* runYtDlp's close handler: resolve(finalPath) iff exit code 0 and the
\* printed path exists.
runYtDlp(id, r) ==
  IF r.code = 0 /\ r.out # <<>> THEN Resolve(FALSE, <<<<id, Head(r.out)>>>>)
  ELSE Reject("yt-dlp exit code")

\* The process is up: no uncaught exception has ended it.
Alive == \A i \in Ids : pc[i] # "crashed"

\* await runYtDlp(...) settled, or the spawn failed.  runYtDlp registers no
\* 'error' listener on the child, so the 'error' event of a failed spawn is
\* thrown by the emitter, and the uncaught exception ends the process.
AfterRunYtDlp(id, r) ==
  /\ pc[id] = "download"
  /\ r \in ProcessRuns(SingleOutputs)
  /\ children' = [children EXCEPT
                    ![id] = Append(@, [bin |-> "yt-dlp", ended |-> Ended(r)])]
  /\ IF ~r.spawned
     THEN /\ pc' = [pc EXCEPT ![id] = "crashed"]
          /\ UNCHANGED <<jobs, disk, uploading>>
     ELSE /\ disk' = disk \cup Produced(id, r)
          /\ LET result == runYtDlp(id, r) IN
             IF ~result.ok
             THEN /\ Catch(id, result.message)
                  /\ UNCHANGED uploading
             ELSE LET filePath == result.paths[1] IN
                  /\ jobs' = setJob(jobs, id, [status |-> "uploading",
                                               file_path |-> filePath,
                                               file_name |-> basename(filePath)])
                  /\ uploading' = StartUpload(uploading, filePath, disk')
                  /\ pc' = [pc EXCEPT ![id] = "sendFile"]
  /\ UNCHANGED <<running, queue, immediates, files, sent, timers, doneAge,
                 uploaded, res, config>>

ServerJsPipeline(id) ==
  \/ \E o \in NotifierOutcomes : AfterStartMsg(id, o)
  \/ \E r \in ProcessRuns(SingleOutputs) : AfterRunYtDlp(id, r)
  \/ \E o \in NotifierOutcomes : AfterSendFile(id, o)
  \/ \E o \in NotifierOutcomes : AfterDoneMsg(id, o)
  \/ \E o \in NotifierOutcomes : AfterFailMsg(id, o)

ServerJsNext ==
  /\ Alive
  /\ \/ \E u \in SubmittedUrls : PostJob(u)
     \/ processQueue
     \/ \E id \in Ids : ServerJsPipeline(id)
     \/ \E t \in timers : CleanupTimer(t)
     \/ Tick

ServerJsSpec == Init /\ [][ServerJsNext]_vars

\* The event loop runs every callback it has queued, and every await of a
\* running pipeline settles.
FairSpec == Spec /\ WF_vars(processQueue) /\ \A id \in Ids : WF_vars(Pipeline(id))

\* ======================= properties =======================

Status(id) == jobs[id].status
Terminal == {"done", "error"}
Active == {id \in DOMAIN jobs : Status(id) \in {"downloading", "uploading"}}
Range(s) == {s[i] : i \in DOMAIN s}

\* C1: in every reachable state the number of jobs whose status is
\* downloading or uploading is at most MAX_CONCURRENT.
C1_ConcurrencyCeiling == Cardinality(Active) <= MAX_CONCURRENT

\* The gate is full, a job waits in the queue and no drive step is pending.
C1_Witness ==
  /\ Cardinality(Active) = MAX_CONCURRENT
  /\ queue # << >>
  /\ immediates = 0

\* C2: once a job's status is done or error, no step changes it again.
C2_TerminalAbsorbing ==
  [][\A id \in DOMAIN jobs :
       Status(id) \in Terminal => jobs'[id].status = Status(id)]_vars

\* C3: every change of a job's status is one of queued -> downloading,
\* downloading -> uploading, uploading -> done, downloading -> error,
\* uploading -> error.
ForwardEdges == {<<"queued", "downloading">>, <<"downloading", "uploading">>,
                 <<"uploading", "done">>, <<"downloading", "error">>,
                 <<"uploading", "error">>}
C3_NoStageSkipped ==
  [][\A id \in DOMAIN jobs :
       jobs'[id].status # Status(id)
         => <<Status(id), jobs'[id].status>> \in ForwardEdges]_vars

\* C4: with MAX_CONCURRENT = 1, a job has left queued only if every job
\* submitted before it has reached done or error and has run its finally (ids
\* are handed out in submission order).
C4_OneAtATime ==
  MAX_CONCURRENT = 1 =>
    \A a, b \in DOMAIN jobs :
      (a < b /\ Status(b) # "queued")
        => (pc[a] = "finished" /\ Status(a) \in Terminal /\ running <= 1)

\* Ceiling 1: the second job is downloading, the first ran to its end.
C4_Witness ==
  /\ MAX_CONCURRENT = 1
  /\ DOMAIN jobs = {1, 2}
  /\ Status(2) = "downloading"
  /\ pc[1] = "finished"

\* C5: a job is admitted (leaves queued) only after every job enqueued before
\* it was admitted.
C5_FifoAdmission ==
  \A a, b \in DOMAIN jobs :
    (a < b /\ Status(b) # "queued") => Status(a) # "queued"

\* Two jobs were admitted one after the other and both are running.
C5_Witness ==
  /\ DOMAIN jobs = {1, 2}
  /\ running = 2
  /\ Status(1) = "downloading"
  /\ Status(2) = "downloading"

\* C6: under fairness of the drive steps and of the pipelines' awaits, every
\* job that was enqueued reaches done or error with its pipeline finished.
C6_EventuallyTerminal ==
  \A id \in Ids :
    (id \in DOMAIN jobs)
      ~> (id \in DOMAIN jobs /\ Status(id) \in Terminal /\ pc[id] = "finished")

\* The last job, submitted while the gate was full, ran to its end.
C6_Witness ==
  /\ MAX_CONCURRENT = 1
  /\ DOMAIN jobs = Ids
  /\ \A id \in Ids : pc[id] = "finished" /\ Status(id) \in Terminal
  /\ queue = << >>

\* C7: when the "starting" notification settles, in whatever way, the engine
\* is invoked next and the job is still downloading.
C7_StartNotificationBestEffort ==
  [][\A id \in DOMAIN jobs :
       (pc[id] = "startMsg" /\ pc'[id] # "startMsg")
         => (pc'[id] = "download" /\ jobs'[id].status = "downloading")]_vars

\* C8: a job in a terminal state has exactly one of: file_path set, the item
\* count summary with file_path null, error set.
HasPath(id) == jobs[id].file_path # NoPath
HasSummary(id) == jobs[id].file_name.kind = "count" /\ jobs[id].file_path = NoPath
HasError(id) == jobs[id].error # NoError
C8_ExactlyOneOutcome ==
  \A id \in DOMAIN jobs :
    Status(id) \in Terminal =>
      \/ HasPath(id) /\ ~HasSummary(id) /\ ~HasError(id)
      \/ ~HasPath(id) /\ HasSummary(id) /\ ~HasError(id)
      \/ ~HasPath(id) /\ ~HasSummary(id) /\ HasError(id)

\* C9: the chat receives a job's files in sorted order; at most one upload of
\* a job is in progress; while the loop runs, the items before the current one
\* are exactly the ones sent, and none of them is on disk any more.
Ascending(s) == \A i, j \in DOMAIN s : i < j => s[i][2] < s[j][2]
UploadsOf(id) == {f \in uploading : f[1] = id}
C10_ArtifactKept ==
  [][\A id \in DOMAIN jobs :
       /\ (Status(id) # "done" /\ jobs'[id].status = "done"
             /\ jobs'[id].file_path # NoPath)
            => jobs'[id].file_path \in disk'
       /\ (Status(id) = "done" /\ HasPath(id)
             /\ jobs[id].file_path \in disk /\ jobs[id].file_path \notin disk')
            => /\ \E t \in timers : t.id = id /\ t.left = 0 /\ t \notin timers'
               /\ doneAge[id] >= Max(1, AUTO_CLEANUP_MINUTES)]_vars

\* A done job's artifact was removed after the configured delay.
C10_Witness ==
  \E id \in DOMAIN jobs :
    /\ AUTO_CLEANUP_MINUTES = MaxCleanup
    /\ Status(id) = "done"
    /\ HasPath(id)
    /\ jobs[id].file_path \notin disk
    /\ doneAge[id] >= AUTO_CLEANUP_MINUTES

\* C11: when the completion notification of a single-file job settles, in
\* whatever way, a cleanup timer is pending for the job.
C11_CleanupScheduled ==
  [][\A id \in DOMAIN jobs :
       (pc[id] = "doneMsg" /\ pc'[id] # "doneMsg")
         => \E t \in timers' : t.id = id]_vars

C20_WorkConserving ==
  (queue # << >> /\ running < MAX_CONCURRENT) => immediates >= 1

\* A pipeline has finished while a job was waiting behind the full gate: the
\* slot is free, the job still queued, and the finally's drive step pending.
C20_Witness ==
  /\ queue # << >>
  /\ running < MAX_CONCURRENT
  /\ \E id \in DOMAIN jobs : pc[id] = "finished"
  /\ immediates = 1

\* C15: a request whose url is empty, unparsable or of a scheme other than
\* http/https is answered 400 and leaves the registry, the queue, the
\* in-flight counter and the pending drive steps as they were; no record ever
\* holds such a url.
Acceptable(u) == u.form = "absolute" /\ u.protocol \in {"http:", "https:"}
C15_InvalidUrlRejected ==
  [][/\ (res' # res /\ ~Acceptable(res'.url))
          => /\ res'.status = 400
             /\ UNCHANGED <<jobs, queue, running, immediates>>
     /\ \A id \in DOMAIN jobs' : Acceptable(jobs'[id].url)]_vars

\* An ftp: url was rejected while one job was in flight.
C15_Witness ==
  /\ res.status = 400
  /\ res.url.protocol = "ftp:"
  /\ running = 1
  /\ DOMAIN jobs = {1}

\* C16: the id a submission enqueues is the one returned, it is the key of no
\* record created before, and GET /api/jobs/:id on the state the handler
\* leaves finds the record with status queued.
C16_FreshIdQueryable ==
  [][Len(queue') > Len(queue)
       => LET id == queue'[Len(queue')] IN
          /\ res'.status = 200
          /\ res'.id = id
          /\ id \notin DOMAIN jobs
          /\ getJob(jobs', id).status = 200
          /\ getJob(jobs', id).job.id = id
          /\ getJob(jobs', id).job.status = "queued"]_vars

\* The second submission was answered while the first job was uploading.
C16_Witness ==
  /\ DOMAIN jobs = {1, 2}
  /\ res.status = 200
  /\ res.id = 2
  /\ getJob(jobs, 2).job.status = "queued"
  /\ Status(1) = "uploading"

\* C18: a job's status becomes uploading only in the step in which its engine
\* process has closed with code 0 and left its output on disk; when the
\* process ends in any other way, or closes with code 0 and no output, that
\* step makes the job error; and of a job that failed before an upload was
\* started the notifier has received nothing and has nothing in progress.
OutputOf(d, id) == {f \in d : f[1] = id}
C18_UploadOnlyAfterCleanExit ==
  [][\A id \in DOMAIN jobs :
       /\ (Status(id) # "uploading" /\ jobs'[id].status = "uploading")
            => /\ children'[id] = Append(children[id], children'[id][Len(children'[id])])
               /\ children'[id][Len(children'[id])].ended = "close 0"
               /\ OutputOf(disk', id) # {}
       /\ (/\ children'[id] # children[id]
           /\ \/ children'[id][Len(children'[id])].ended # "close 0"
              \/ OutputOf(disk', id) = {})
            => /\ jobs'[id].status = "error"
               /\ jobs'[id].error # NoError
               /\ OutputOf(uploading', id) = {}
       /\ (Status(id) = "error" /\ ~HasPath(id) /\ ~HasSummary(id))
            => /\ uploaded'[id] = << >>
               /\ OutputOf(uploading', id) = {}]_vars

\* One engine closed with code 0 and its job is uploading; another closed with
\* code 0 without leaving a file and its job is in error.
C18_Witness ==
  \E a, b \in DOMAIN jobs :
    /\ Status(a) = "uploading"
    /\ children[a][1].ended = "close 0"
    /\ Status(b) = "error"
    /\ children[b] = <<[bin |-> "aria2c", ended |-> "close 0"]>>
    /\ uploaded[b] = << >>

\* C19: the engine spawned for a job is the one the precedence names: aria2c
\* for a direct suffix, else ffmpeg for a manifest suffix, else spotdl for a
\* music-service host, else yt-dlp; no job has more than one engine process,
\* and a job that got as far as uploading has exactly one.
Precedence(u) ==
  IF u.ext \in DirectExts THEN "aria2c"
  ELSE IF u.ext = ".m3u8" THEN "ffmpeg"
  ELSE IF u.host = "open.spotify.com" THEN "spotdl"
  ELSE "yt-dlp"
C19_FirstMatchWins ==
  \A id \in DOMAIN jobs :
    /\ Len(children[id]) <= 1
    /\ \A i \in DOMAIN children[id] : children[id][i].bin = Precedence(jobs[id].url)
    /\ Status(id) \in {"uploading", "done"} => Len(children[id]) = 1

\* A direct file on the music-service host went to aria2c, a manifest on the
\* same host to ffmpeg.
C19_Witness ==
  \E a, b \in DOMAIN jobs :
    /\ jobs[a].url = Url("https:", "open.spotify.com", ".mp4")
    /\ Len(children[a]) = 1
    /\ children[a][1].bin = "aria2c"
    /\ jobs[b].url = Url("https:", "open.spotify.com", ".m3u8")
    /\ Len(children[b]) = 1
    /\ children[b][1].bin = "ffmpeg"

\* C12: a step in which the engine process fails (its spawn fails, it closes
\* with a non-zero code, or it closes without output) or in which an upload
\* fails makes the job error with the error field set; the step in which the
\* failure notification settles, in whatever way, leaves the record as it is,
\* releases the slot and schedules a drive step.
EngineFailed(id) ==
  /\ children'[id] # children[id]
  /\ \/ children'[id][Len(children'[id])].ended # "close 0"
     \/ OutputOf(disk', id) = {}
UploadFailed(id) ==
  /\ pc[id] \in {"sendFile", "sendItem"}
  /\ ~NotConfigured
  /\ <<pc'[id], sent'[id]>> # <<pc[id], sent[id]>>
  /\ uploaded'[id] = uploaded[id]
C12_FailureEndsInError ==
  [][\A id \in DOMAIN jobs :
       /\ (EngineFailed(id) \/ UploadFailed(id))
            => /\ jobs'[id].status = "error"
               /\ jobs'[id].error # NoError
               /\ pc'[id] = "failMsg"
       /\ (pc[id] = "failMsg" /\ pc'[id] # "failMsg")
            => /\ jobs'[id] = jobs[id]
               /\ running' = running - 1
               /\ immediates' = immediates + 1]_vars

\* C13: a step in which a job's pipeline fails leaves the process running,
\* the records of the other jobs as they were and the queue as it was.
PipelineFailed(id) ==
  \/ EngineFailed(id)
  \/ UploadFailed(id)
  \/ Status(id) # "error" /\ jobs'[id].status = "error"
C13_FailureIsolated ==
  [][\A id \in DOMAIN jobs :
       PipelineFailed(id)
         => /\ \A i \in Ids : pc'[i] # "crashed"
            /\ \A other \in DOMAIN jobs \ {id} : jobs'[other] = jobs[other]
            /\ queue' = queue]_vars

\* C17: no step appends to the queue an id that is a key of the registry, and
\* no step turns an existing record back into a queued one.
C17_DuplicateCreateFails ==
  [][\A id \in DOMAIN jobs :
       /\ queue' # Append(queue, id)
       /\ jobs'[id] # jobs[id] => jobs'[id].status # "queued"]_vars

\* C21: running is the number of pipelines that were admitted and have not
\* run their finally; it is between 0 and MAX_CONCURRENT; and it is 0 when the
\* queue is empty and every job is terminal with its pipeline finished.
InFlight == {id \in Ids : pc[id] \notin {"idle", "finished"}}
C21_RunningCountsPipelines ==
  /\ running = Cardinality(InFlight)
  /\ running >= 0
  /\ running <= MAX_CONCURRENT
  /\ (/\ queue = << >>
      /\ \A id \in DOMAIN jobs : Status(id) \in Terminal /\ pc[id] = "finished")
       => running = 0

\* Both jobs ran to their end, one on the success path and one on a failure
\* path, and every slot is free again.
C21_Witness ==
  /\ DOMAIN jobs = Ids
  /\ queue = << >>
  /\ \A id \in Ids : pc[id] = "finished"
  /\ \E id \in Ids : Status(id) = "done"
  /\ \E id \in Ids : Status(id) = "error"
  /\ running = 0

\* C22: an id is in the queue exactly when its job's status is queued; no id
\* is in the queue twice; a job that is not in the queue is never put into it,
\* and a pipeline that was started is never started again.
C22_QueueAgreesWithStatus ==
  /\ [](/\ Range(queue) \subseteq DOMAIN jobs
        /\ \A id \in DOMAIN jobs : (id \in Range(queue)) <=> (Status(id) = "queued")
        /\ Cardinality(Range(queue)) = Len(queue))
  /\ [][\A id \in DOMAIN jobs :
          /\ id \notin Range(queue) => id \notin Range(queue')
          /\ (pc[id] # "idle" /\ pc'[id] = "startMsg") => pc[id] = "startMsg"]_vars

\* The first job failed and its pipeline is over; it is not back in the queue,
\* where the second job waits.
C22_Witness ==
  /\ DOMAIN jobs = {1, 2}
  /\ Status(1) = "error"
  /\ pc[1] = "finished"
  /\ queue = <<2>>
  /\ Status(2) = "queued"

\* C23: a done job's file, or every item the summary of a done multi-file job
\* counts, was received by the chat; and an item of a multi-file job that is
\* no longer on disk was received by the chat.
C23_DoneMeansUploaded ==
  \A id \in DOMAIN jobs :
    /\ (Status(id) = "done" /\ HasPath(id))
         => jobs[id].file_path \in Range(uploaded[id])
    /\ (Status(id) = "done" /\ HasSummary(id))
         => \A i \in 1..jobs[id].file_name.n : <<id, i>> \in Range(uploaded[id])
    /\ HasSummary(id)
         => \A i \in 1..jobs[id].file_name.n :
              <<id, i>> \notin disk => <<id, i>> \in Range(uploaded[id])

====
